---- MODULE Spec2Model ----
(***************************************************************************)
(* A model of pypdl's transfer engine.                                     *)
(*                                                                         *)
(* Spec models pypdl/downloader.py: AsyncFileDownloader.download_all with  *)
(* its producer, its max_concurrent consumers and one download_file task   *)
(* per URL, over a file system (temp and final path of every URL), a       *)
(* remote server and the two aiolimiter.AsyncLimiter leaky buckets.        *)
(* Every action is one run of a coroutine between two awaits: asyncio runs *)
(* the code between two suspension points atomically.                      *)
(***************************************************************************)
EXTENDS Integers, Sequences, FiniteSets, TLC

\* ------------------------------------------------------------- bounds
\* The URLs handed to AsyncFileDownloader are 1..NumUrls (pairwise distinct).
NumUrls == 2
\* The largest remote resource, in bytes.
FileSize == 2
\* Config.CHUNK_SIZE, scaled down: iter_chunked yields chunks of 1..ChunkSize bytes.
ChunkSize == 2
\* Config.MAX_CONCURRENT ranges over 1..MaxMaxConcurrent.
MaxMaxConcurrent == 2
\* Config.MAX_BANDWIDTH (scaled to bytes per period) ranges over
\* 0..MaxMaxBandwidth, 0 meaning no limit.
MaxMaxBandwidth == 2
\* How many times the remote resource of a URL is replaced during a run.
MaxChanges == 1
\* Config.RETRY_ATTEMPTS ranges over 1..BatchRetryAttempts in a batch of several jobs.
BatchRetryAttempts == 2
\* Config.BATCH_SIZE ranges over 1..MaxBatchSize.
MaxBatchSize == 2

\* The total size of the resource a DownloadManager job probes is 0..MaxSize bytes.
MaxSize == 3
\* The caller asks for 1..MaxSegments segments.
MaxSegments == 3

\* run_benchmark is called with num_items in 0..MaxItems.
MaxItems == 21
\* A URL's path has up to MaxDirs directories above its file name.
MaxDirs == 2

\* download3.process_item handles a dossier of NumLinks hyperlinks.
NumLinks == 2
\* download3.download_files_for_items is given a list of NumDossiers dossiers.
NumDossiers == 2

\* core.AsyncFileDownloader is run up to MaxRuns times on the same output folder.
MaxRuns == 2
\* The workers of a DownloadManager job download up to MaxDownloaded units in all.
MaxDownloaded == 3

\* ---------------------------------------------------- program constants
\* manager.py:143  recent_queue = deque([0] * 12, maxlen=12)
HistoryLen == 12
\* download3.py:16  max_retries=3, the default process_item leaves in place
max_retries == 3
\* utils.py:14,20  populate_database files every 10 hyperlinks under one dossier
DossierSize == 10
\* Config.RETRY_ATTEMPTS: settings 0..RETRY_ATTEMPTS are explored.
RETRY_ATTEMPTS == 3

Urls == 1..NumUrls
NoRange == -1

Min(a, b) == IF a < b THEN a ELSE b
RECURSIVE Pow(_, _)
Pow(b, e) == IF e = 0 THEN 1 ELSE b * Pow(b, e - 1)
\* n bytes of version v of a resource
Bytes(v, n) == [i \in 1..n |-> v]

\* A remote resource is the sequence of the lengths of its versions so far: the
\* server serves the last one, and the version number stands for its validator
Version(r) == Len(r)
Size(r) == r[Len(r)]

NoFile == [exists |-> FALSE, data |-> <<>>]
File(d) == [exists |-> TRUE, data |-> d]
NoResult == [status |-> "pending", bytes |-> 0]
NoBatch == [none |-> FALSE, items |-> <<>>]
NoneBatch == [none |-> TRUE, items |-> <<>>]

VARIABLES
    \* configuration read in __init__
    max_concurrent, retry_attempts, batch_size, bw_rate,
    \* download_all, producer, consumers
    urls, queue, prodPc, prodBatch, cons, dlAll,
    \* one download_file task per URL
    pc, attempt, req, resp, bytes_downloaded, pending, result,
    \* the file system and the remote server
    temp, final, remote, changes,
    \* the two AsyncLimiter buckets
    rate_level, bw_level,
    \* counters of the downloader
    successful_downloads, failed_downloads,
    \* history, read only by the properties
    invoked, requests, waits, lastFail, sawPermanent, only503, held

cfgVars == <<max_concurrent, retry_attempts, batch_size, bw_rate>>
schedVars == <<urls, queue, prodPc, prodBatch, cons, dlAll>>
taskVars == <<pc, attempt, req, resp, bytes_downloaded, pending, result>>
fsVars == <<temp, final>>
envVars == <<remote, changes>>
limVars == <<rate_level, bw_level>>
cntVars == <<successful_downloads, failed_downloads>>
histVars == <<invoked, requests, waits, lastFail, sawPermanent, only503, held>>
dlVars == <<cfgVars, schedVars, taskVars, fsVars, envVars, limVars, cntVars, histVars>>

VARIABLES
    \* DownloadManager._execute: its arguments, its position, its locals
    asked, mgrPc, multithread, segments, segment_table, mstatus,
    \* DownloadManager's attributes
    size, completed, interrupt, workers,
    \* the server the job probes
    server,
    \* history, read only by the properties
    combined, headRequests, getRequests

mgrVars == <<asked, mgrPc, multithread, segments, segment_table, mstatus, size, completed,
             interrupt, workers, server, combined, headRequests, getRequests>>

VARIABLES
    \* run_benchmark: its argument, its position, its result
    num_items, bmPc, results,
    \* populate_database: the loop index and the local list hyperlinks
    inserted, hyperlinks,
    \* the catalog: the dossiers and the hyperlinks marked downloaded
    dossiers, downloaded,
    \* process_downloads: the hyperlinks each download_and_update task has handled
    taskPos

bmVars == <<num_items, bmPc, results, inserted, hyperlinks, dossiers, downloaded, taskPos>>

VARIABLES
    \* two URLs, and what generate_file_path and download_file compute for them
    links, pthPc, storagePath, filePath

pthVars == <<links, pthPc, storagePath, filePath>>

VARIABLES
    \* download3.download_files_for_items: max_concurrent, the hyperlinks'
    \* basenames, the semaphore's value and its holders, the position of gather
    d3Max, d3Names, semaphore, holds, d3Main,
    \* one download3.download_file task per hyperlink
    d3Pc, d3Attempt, d3Left, d3Result,
    \* the files of folder_path
    d3Files,
    \* history, read only by the properties
    d3Waits

d3Vars == <<d3Max, d3Names, semaphore, holds, d3Main, d3Pc, d3Attempt, d3Left, d3Result,
            d3Files, d3Waits>>

VARIABLES
    \* core.AsyncFileDownloader: max_concurrent, the run, the semaphore's value,
    \* the position of download_all
    coreMax, coreRun, coreSemaphore, coreMain,
    \* one core download_file task per URL, and the files of output_folder
    corePc, coreLeft, coreResult, coreFiles,
    \* history: the task returned through the file-exists branch
    coreSkipped

coreVars == <<coreMax, coreRun, coreSemaphore, coreMain, corePc, coreLeft, coreResult,
              coreFiles, coreSkipped>>

VARIABLES
    \* DownloadManager._execute's recent_queue, the sum of worker.downloaded,
    \* and DownloadManager.speed as a fraction
    recent_queue, downloadedSum, speed

spdVars == <<recent_queue, downloadedSum, speed>>

VARIABLES
    \* download3.download_files_for_items over a list of dossiers: each
    \* dossier's id and number of hyperlinks, the position of the call,
    \* the return values of the download_file and process_item tasks
    catIds, catLinks, catMain, download_results, catResults,
    \* update_database: the pairs of zip(dossiers, results) handled so far, the
    \* attachment_files_downloaded column as db_session sees it, and as committed
    catPos, db_session, catalog

catVars == <<catIds, catLinks, catMain, download_results, catResults, catPos, db_session,
             catalog>>

auxVars == <<d3Vars, coreVars, spdVars, catVars>>
extVars == <<mgrVars, bmVars, pthVars, auxVars>>
vars == <<dlVars, extVars>>

\* manager.py:22-38  a DownloadManager on which nothing has been started
MgrIdle ==
    /\ asked = [multithread |-> FALSE, segments |-> 1]
    /\ mgrPc = "idle"
    /\ multithread = FALSE /\ segments = 0 /\ segment_table = <<>> /\ mstatus = 0
    /\ size = 0 /\ completed = FALSE /\ interrupt = FALSE /\ workers = <<>>
    /\ server = [head |-> 200, get |-> 200, length |-> 0, ranges |-> "absent"]
    /\ combined = 0 /\ headRequests = 0 /\ getRequests = 0

NoResults == [total_items |-> 0, downloaded_url_count |-> 0]

\* benchmark.py:10  run_benchmark has not been called
BmIdle ==
    /\ num_items = 0 /\ bmPc = "idle" /\ results = NoResults
    /\ inserted = 0 /\ hyperlinks = {} /\ dossiers = <<>> /\ downloaded = {}
    /\ taskPos = <<>>

\* storage.py:15, downloader.py:58  no path has been computed
PthIdle == links = <<>> /\ pthPc = "idle" /\ storagePath = <<>> /\ filePath = <<>>

\* download3.py:64  download_files_for_items has not been called
D3Idle ==
    /\ d3Max = 1 /\ d3Names = <<>> /\ semaphore = 0 /\ holds = <<>> /\ d3Main = "idle"
    /\ d3Pc = <<>> /\ d3Attempt = <<>> /\ d3Left = <<>> /\ d3Result = <<>>
    /\ d3Files = <<>> /\ d3Waits = <<>>

\* core.py:16-21  no core.AsyncFileDownloader has been created
CoreIdle ==
    /\ coreMax = 1 /\ coreRun = 0 /\ coreSemaphore = 0 /\ coreMain = "idle"
    /\ corePc = <<>> /\ coreLeft = <<>> /\ coreResult = <<>> /\ coreFiles = <<>>
    /\ coreSkipped = <<>>

NoSpeed == [num |-> 0, den |-> 1]

\* manager.py:32,143  no job is being sampled
SpdIdle == recent_queue = <<>> /\ downloadedSum = 0 /\ speed = NoSpeed

\* download3.py:64  download_files_for_items has not been called
CatIdle ==
    /\ catIds = <<>> /\ catLinks = <<>> /\ catMain = "idle" /\ download_results = <<>>
    /\ catResults = <<>> /\ catPos = 0 /\ db_session = <<>> /\ catalog = <<>>

AuxIdle == D3Idle /\ CoreIdle /\ SpdIdle /\ CatIdle
ExtIdle == MgrIdle /\ BmIdle /\ PthIdle /\ AuxIdle

\* ------------------------------------------------------------ helpers
Consumers == 1..max_concurrent
\* The URLs of a batch, as a set
Items(b) == {b.items[i] : i \in 1..Len(b.items)}
Terminal(u) == pc[u] \in {"done", "crashed"}

\* The check left out: the call goes on to its attempts
FileAlreadyExists_Never(u) == FALSE

\* downloader.py:62  os.path.exists(filepath)
FileAlreadyExists(u) == final[u].exists

\* A resume that asks for the body from its first byte again
RangeHeader_FromZero(t) == IF t.exists THEN 0 ELSE NoRange

\* downloader.py:72-74  the Range header of an attempt: the temp file's length
RangeHeader(t) == IF t.exists THEN Len(t.data) ELSE NoRange

\* A client that does not know status 416
RangeNotSatisfiable_Never(status) == FALSE

\* downloader.py:77  response.status == 416: range not satisfiable
RangeNotSatisfiable(status) == status = 416

\* downloader.py:76  the response object of a request whose body is not read
Response(status, r) == [status |-> status, left |-> 0, ver |-> Version(r)]

\* downloader.py:82  the statuses whose body is read
StatusAccepted(status) == status \in {200, 206}

\* A client that appends whatever the status of the response
OpenMode_AlwaysAppend(status) == "ab"

\* downloader.py:92  mode = 'ab' if response.status == 206 else 'wb'
OpenMode(status) == IF status = 206 THEN "ab" ELSE "wb"

\* An open that empties the file in either mode
OpenTemp_Truncating(t, mode) == File(<<>>)

\* downloader.py:94  aiofiles.open(temp_filepath, mode): 'wb' truncates, 'ab' keeps
OpenTemp(t, mode) == IF mode = "ab" /\ t.exists THEN t ELSE File(<<>>)

\* downloader.py:116  the attempt after which no retry is made
LastAttempt(a) == a = retry_attempts - 1

\* A backoff that waits the same second before every retry
Backoff_Fixed(a) == 1

\* downloader.py:122  asyncio.sleep(2 ** attempt)
Backoff(a) == Pow(2, a)

\* aiolimiter.AsyncLimiter.has_capacity: the bucket holds level of max_rate
\* (max_rate 0 stands for float('inf'))
HasCapacity(level, amount, max_rate) == max_rate = 0 \/ level + amount <= max_rate

\* aiolimiter.AsyncLimiter.acquire raises ValueError for an amount above max_rate
ExceedsCapacity(amount, max_rate) == max_rate # 0 /\ amount > max_rate

\* aiolimiter.AsyncLimiter._leak: the levels a bucket holding level may show at
\* the next look, the time since the last look having drained it
Leaked(level) == 0..level

\* aiolimiter.AsyncLimiter.acquire: the level after a debit (an unlimited bucket
\* leaks at an infinite rate and is empty at the next look)
Debit(level, amount, max_rate) == IF max_rate = 0 THEN 0 ELSE level + amount

\* aiohttp.TCPConnector(limit=max_concurrent): tasks holding a connection
HoldsConnection(u) == pc[u] \in {"streaming", "bwwait"}
ConnectionFree == Cardinality({u \in Urls : HoldsConnection(u)}) < max_concurrent

\* Tasks inside "async with self.rate_limiter": past the limiter, request issued
InFlight == {u \in Urls : pc[u] \in {"connecting", "streaming", "bwwait"}}

\* The remote server's answers to GET with the given Range offset (RFC 7233): a
\* range starting at or beyond the end is not satisfiable; a server may ignore
\* Range and send the whole body; any request may be rejected (404, 503).
ServerStatuses(range, r) ==
    {404, 503, 200} \cup
    (IF range = NoRange THEN {} ELSE IF range >= Size(r) THEN {416} ELSE {206})

\* The bytes the body of a response carries
BodyLength(status, range, r) == IF status = 206 THEN Size(r) - range ELSE Size(r)

\* ---------------------------------------------------------------- Init
\* The state after __init__ (downloader.py:22-36) for n URLs, the given settings
\* and what an earlier run left of URL 1: nothing (left = -1), a temp file of
\* left bytes, or the published file (left = -2)
InitDownloader(n, mc, ra, bs, bw, left, ch) ==
    /\ max_concurrent = mc
    /\ batch_size = bs
    /\ retry_attempts = ra
    /\ bw_rate = bw
    /\ urls = [i \in 1..n |-> i]
    /\ queue = <<>>
    /\ prodPc = "loop"
    /\ prodBatch = NoBatch
    /\ cons = [c \in 1..mc |-> [pc |-> "get", batch |-> NoBatch]]
    /\ dlAll = "running"
    /\ pc = [u \in Urls |-> "idle"]
    /\ attempt = [u \in Urls |-> 0]
    /\ req = [u \in Urls |-> NoRange]
    /\ resp = [u \in Urls |-> [status |-> 0, left |-> 0, ver |-> 0]]
    /\ bytes_downloaded = [u \in Urls |-> 0]
    /\ pending = [u \in Urls |-> 0]
    /\ result = [u \in Urls |-> NoResult]
    /\ remote = [u \in Urls |-> <<FileSize>>]
    /\ changes = ch
    /\ temp = [u \in Urls |-> IF u = 1 /\ left >= 0 THEN File(Bytes(1, left)) ELSE NoFile]
    /\ final = [u \in Urls |-> IF u = 1 /\ left = -2 THEN File(Bytes(1, FileSize)) ELSE NoFile]
    /\ rate_level = 0
    /\ bw_level = 0
    /\ successful_downloads = 0
    /\ failed_downloads = 0
    /\ invoked = [u \in Urls |-> 0]
    /\ requests = [u \in Urls |-> 0]
    /\ waits = [u \in Urls |-> <<>>]
    /\ lastFail = [u \in Urls |-> "none"]
    /\ sawPermanent = [u \in Urls |-> FALSE]
    /\ only503 = [u \in Urls |-> TRUE]
    /\ held = [u \in Urls |-> NoFile]

\* An AsyncFileDownloader, beside a DownloadManager that is not used
InitWith(n, mc, ra, bs, bw, left, ch) == InitDownloader(n, mc, ra, bs, bw, left, ch) /\ ExtIdle

\* One job in every setting, over what an earlier run left, its remote resource
\* replaced at most MaxChanges times
InitJob ==
    \E n \in 0..1, mc \in 1..MaxMaxConcurrent, ra \in 0..RETRY_ATTEMPTS,
       bw \in 0..MaxMaxBandwidth, left \in -2..FileSize :
        InitWith(n, mc, ra, 1, bw, left, 0)

\* A batch of several jobs on a clean output folder
InitBatch ==
    \E n \in 2..NumUrls, mc \in 1..MaxMaxConcurrent, ra \in 1..BatchRetryAttempts,
       bs \in 1..MaxBatchSize, bw \in 0..MaxMaxBandwidth :
        InitWith(n, mc, ra, bs, bw, -1, MaxChanges)

Init == InitJob \/ InitBatch

Running == dlAll = "running"

\* ------------------------------------------------- download_file (task u)
\* downloader.py:68-76  the head of an attempt: "async with self.rate_limiter"
\* passes at once when the bucket (as drained since the last look) has capacity,
\* the Range header is computed and the request is issued; otherwise the task
\* waits for capacity.
EnterAttempt(u, a) ==
    /\ attempt' = [attempt EXCEPT ![u] = a]
    /\ lastFail' = [lastFail EXCEPT ![u] = "none"]
    /\ \E l \in Leaked(rate_level) :
        IF HasCapacity(l, 1, max_concurrent)
        THEN /\ rate_level' = Debit(l, 1, max_concurrent)
             /\ req' = [req EXCEPT ![u] = RangeHeader(temp[u])]
             /\ requests' = [requests EXCEPT ![u] = @ + 1]
             /\ held' = [held EXCEPT ![u] = temp[u]]
             /\ pc' = [pc EXCEPT ![u] = "connecting"]
        ELSE /\ rate_level' = l
             /\ pc' = [pc EXCEPT ![u] = "limiter"]
             /\ UNCHANGED <<req, requests, held>>

\* downloader.py:114-122  the except branch of an attempt
Fail(u, kind) ==
    /\ lastFail' = [lastFail EXCEPT ![u] = kind]
    /\ sawPermanent' = [sawPermanent EXCEPT ![u] = @ \/ kind = "HTTP404"]
    /\ only503' = [only503 EXCEPT ![u] = @ /\ kind = "HTTP503"]
    /\ UNCHANGED held
    /\ IF LastAttempt(attempt[u])
       THEN /\ failed_downloads' = failed_downloads + 1
            /\ result' = [result EXCEPT ![u] = [status |-> "error", bytes |-> 0]]
            /\ pc' = [pc EXCEPT ![u] = "done"]
            /\ UNCHANGED waits
       ELSE /\ pc' = [pc EXCEPT ![u] = "sleep"]
            /\ waits' = [waits EXCEPT ![u] = Append(@, Backoff(attempt[u]))]
            /\ UNCHANGED <<failed_downloads, result>>

\* An exception no except clause of download_file catches leaves the coroutine
Raise(u, kind) ==
    /\ pc' = [pc EXCEPT ![u] = "crashed"]
    /\ lastFail' = [lastFail EXCEPT ![u] = kind]

\* downloader.py:97-100  a chunk of n bytes is debited from the bandwidth bucket
\* (holding l), written to the temp file and counted
WriteChunk(u, n, l) ==
    /\ bw_level' = Debit(l, n, bw_rate)
    /\ temp' = [temp EXCEPT ![u] = File(@.data \o Bytes(resp[u].ver, n))]
    /\ bytes_downloaded' = [bytes_downloaded EXCEPT ![u] = @ + n]
    /\ resp' = [resp EXCEPT ![u].left = @ - n]
    /\ pending' = [pending EXCEPT ![u] = 0]
    /\ pc' = [pc EXCEPT ![u] = "streaming"]

\* downloader.py:55-68  the call: the file-exists check, then the attempt loop
\* (which makes no attempt and returns nothing when retry_attempts is 0)
Start(u) ==
    /\ Running /\ pc[u] = "start"
    /\ IF FileAlreadyExists(u)
       THEN /\ successful_downloads' = successful_downloads + 1
            /\ result' = [result EXCEPT ![u] = [status |-> "success", bytes |-> 0]]
            /\ pc' = [pc EXCEPT ![u] = "done"]
            /\ UNCHANGED <<attempt, req, requests, rate_level, lastFail, held>>
       ELSE IF retry_attempts <= 0
       THEN /\ result' = [result EXCEPT ![u] = [status |-> "None", bytes |-> 0]]
            /\ pc' = [pc EXCEPT ![u] = "done"]
            /\ UNCHANGED <<attempt, req, requests, rate_level, lastFail, held,
                           successful_downloads>>
       ELSE /\ EnterAttempt(u, 0)
            /\ UNCHANGED <<result, successful_downloads>>
    /\ UNCHANGED <<extVars, cfgVars, schedVars, resp, bytes_downloaded, pending, fsVars, envVars,
                   bw_level, failed_downloads, invoked, waits, sawPermanent, only503>>

\* downloader.py:70-76  a task waiting in rate_limiter.acquire finds capacity
AcquireSlot(u) ==
    /\ Running /\ pc[u] = "limiter"
    /\ \E l \in Leaked(rate_level) : HasCapacity(l, 1, max_concurrent)
    /\ EnterAttempt(u, attempt[u])
    /\ pc'[u] = "connecting"
    /\ UNCHANGED <<extVars, cfgVars, schedVars, resp, bytes_downloaded, pending, result, fsVars,
                   envVars, bw_level, cntVars, invoked, waits, sawPermanent, only503>>

\* downloader.py:76,114  session.get raises before a response arrives
\* (connection error, timeout)
RequestFails(u) ==
    /\ Running /\ pc[u] = "connecting"
    /\ Fail(u, "ClientConnectionError")
    /\ UNCHANGED <<extVars, cfgVars, schedVars, attempt, req, resp, bytes_downloaded, pending,
                   fsVars, envVars, limVars, successful_downloads, invoked, requests>>

\* downloader.py:76-95  the response arrives on a pooled connection
Respond(u) ==
    /\ Running /\ pc[u] = "connecting"
    /\ ConnectionFree
    /\ \E status \in ServerStatuses(req[u], remote[u]) :
        IF RangeNotSatisfiable(status)
        THEN \* os.rename(temp_filepath, filepath); return success, 0 bytes
             /\ resp' = [resp EXCEPT ![u] = Response(status, remote[u])]
             /\ IF temp[u].exists
                THEN /\ final' = [final EXCEPT ![u] = temp[u]]
                     /\ temp' = [temp EXCEPT ![u] = NoFile]
                     /\ result' = [result EXCEPT ![u] = [status |-> "success", bytes |-> 0]]
                     /\ pc' = [pc EXCEPT ![u] = "done"]
                     /\ UNCHANGED lastFail
                ELSE /\ Raise(u, "FileNotFoundError")
                     /\ UNCHANGED <<final, temp, result>>
             /\ UNCHANGED <<bytes_downloaded, failed_downloads, waits, sawPermanent, only503, held>>
        ELSE IF ~StatusAccepted(status)
        THEN /\ Fail(u, IF status = 404 THEN "HTTP404" ELSE "HTTP503")
             /\ resp' = [resp EXCEPT ![u] = Response(status, remote[u])]
             /\ UNCHANGED <<bytes_downloaded, fsVars>>
        ELSE /\ temp' = [temp EXCEPT ![u] = OpenTemp(@, OpenMode(status))]
             /\ resp' = [resp EXCEPT ![u] = [status |-> status,
                                             left |-> BodyLength(status, req[u], remote[u]),
                                             ver |-> Version(remote[u])]]
             /\ bytes_downloaded' = [bytes_downloaded EXCEPT ![u] = 0]
             /\ pc' = [pc EXCEPT ![u] = "streaming"]
             /\ UNCHANGED <<final, result, failed_downloads, waits, lastFail, sawPermanent, only503, held>>
    /\ UNCHANGED <<extVars, cfgVars, schedVars, attempt, req, pending, envVars, limVars,
                   successful_downloads, invoked, requests>>

\* downloader.py:96-100  iter_chunked yields the next chunk: acquire(len(chunk))
\* raises ValueError above the bucket's capacity, returns at once when the bucket
\* can afford it, and waits otherwise
ReadChunk(u) ==
    /\ Running /\ pc[u] = "streaming" /\ resp[u].left > 0
    /\ \E n \in 1..Min(ChunkSize, resp[u].left), l \in Leaked(bw_level) :
        IF ExceedsCapacity(n, bw_rate)
        THEN /\ Raise(u, "ValueError")
             /\ UNCHANGED <<bw_level, temp, bytes_downloaded, resp, pending>>
        ELSE IF HasCapacity(l, n, bw_rate)
        THEN /\ WriteChunk(u, n, l)
             /\ UNCHANGED lastFail
        ELSE /\ pc' = [pc EXCEPT ![u] = "bwwait"]
             /\ pending' = [pending EXCEPT ![u] = n]
             /\ bw_level' = l
             /\ UNCHANGED <<temp, bytes_downloaded, resp, lastFail>>
    /\ UNCHANGED <<extVars, cfgVars, schedVars, attempt, req, result, final, envVars, rate_level,
                   cntVars, invoked, requests, waits, sawPermanent, only503, held>>

\* downloader.py:97-100  a task waiting in bandwidth_limiter.acquire is served
BandwidthGranted(u) ==
    /\ Running /\ pc[u] = "bwwait"
    /\ \E l \in Leaked(bw_level) :
          /\ HasCapacity(l, pending[u], bw_rate)
          /\ WriteChunk(u, pending[u], l)
    /\ UNCHANGED <<extVars, cfgVars, schedVars, attempt, req, result, final, envVars, rate_level,
                   cntVars, histVars>>

\* downloader.py:96,102-112  the body ends: the blocks exit, the temp file is
\* renamed to the final path, success is returned
StreamEnds(u) ==
    /\ Running /\ pc[u] = "streaming" /\ resp[u].left = 0
    /\ final' = [final EXCEPT ![u] = temp[u]]
    /\ temp' = [temp EXCEPT ![u] = NoFile]
    /\ successful_downloads' = successful_downloads + 1
    /\ result' = [result EXCEPT ![u] = [status |-> "success", bytes |-> bytes_downloaded[u]]]
    /\ pc' = [pc EXCEPT ![u] = "done"]
    /\ UNCHANGED <<extVars, cfgVars, schedVars, attempt, req, resp, bytes_downloaded, pending,
                   envVars, limVars, failed_downloads, histVars>>

\* downloader.py:96,114  the body breaks off (payload error, timeout): the temp
\* file stays as it is
StreamFails(u) ==
    /\ Running /\ pc[u] \in {"streaming", "bwwait"}
    /\ Fail(u, "TimeoutError")
    /\ pending' = [pending EXCEPT ![u] = 0]
    /\ UNCHANGED <<extVars, cfgVars, schedVars, attempt, req, resp, bytes_downloaded, fsVars,
                   envVars, limVars, successful_downloads, invoked, requests>>

\* downloader.py:122,68  the backoff sleep ends and the next attempt begins
Wake(u) ==
    /\ Running /\ pc[u] = "sleep"
    /\ EnterAttempt(u, attempt[u] + 1)
    /\ UNCHANGED <<extVars, cfgVars, schedVars, resp, bytes_downloaded, pending, result, fsVars,
                   envVars, bw_level, cntVars, invoked, waits, sawPermanent, only503>>

\* ------------------------------------------------------------ environment
\* The remote resource of a URL is replaced (a new validator, a new length)
\* while this run holds partial data of it and no request for it is open
ChangeResource(u) ==
    /\ Running /\ changes < MaxChanges
    /\ pc[u] \in {"start", "sleep"}
    /\ temp[u].exists /\ temp[u].data # <<>>
    /\ \E n \in 1..FileSize :
          remote' = [remote EXCEPT ![u] = Append(@, n)]
    /\ changes' = changes + 1
    /\ UNCHANGED <<extVars, cfgVars, schedVars, taskVars, fsVars, limVars, cntVars, histVars>>

\* ----------------------------------------------- producer and consumers
\* downloader.py:147  asyncio.Queue(maxsize=self.max_concurrent)
QueueFull == Len(queue) >= max_concurrent

\* downloader.py:126  the next batch: min(batch_size, len(urls)) URLs from the left
NextBatch == [none |-> FALSE, items |-> SubSeq(urls, 1, Min(batch_size, Len(urls)))]

\* downloader.py:128  what the producer puts once the URLs are used up
EndOfInput == <<NoneBatch>>

\* downloader.py:124-128  one turn of the producer's loop up to its await:
\* queue.put returns at once unless the queue is full
Producer ==
    /\ Running /\ prodPc = "loop"
    /\ IF urls # <<>>
       THEN /\ urls' = SubSeq(urls, Len(NextBatch.items) + 1, Len(urls))
            /\ IF QueueFull
               THEN /\ prodPc' = "put" /\ prodBatch' = NextBatch /\ UNCHANGED queue
               ELSE /\ queue' = Append(queue, NextBatch) /\ UNCHANGED <<prodPc, prodBatch>>
       ELSE /\ UNCHANGED <<urls, prodBatch>>
            /\ IF QueueFull
               THEN /\ prodPc' = "putNone" /\ UNCHANGED queue
               ELSE /\ queue' = queue \o EndOfInput /\ prodPc' = "done"
    /\ UNCHANGED <<extVars, cfgVars, cons, dlAll, taskVars, fsVars, envVars, limVars, cntVars, histVars>>

\* downloader.py:127-128  a blocked queue.put goes through
ProducerUnblock ==
    /\ Running /\ prodPc \in {"put", "putNone"} /\ ~QueueFull
    /\ IF prodPc = "put"
       THEN /\ queue' = Append(queue, prodBatch) /\ prodPc' = "loop"
       ELSE /\ queue' = queue \o EndOfInput /\ prodPc' = "done"
    /\ prodBatch' = NoBatch
    /\ UNCHANGED <<extVars, cfgVars, urls, cons, dlAll, taskVars, fsVars, envVars, limVars, cntVars, histVars>>

\* downloader.py:131-136  queue.get returns: None ends the consumer, a batch
\* starts one download_file task per URL under gather
ConsumerGet(c) ==
    /\ Running /\ cons[c].pc = "get" /\ queue # <<>>
    /\ queue' = Tail(queue)
    /\ IF Head(queue).none
       THEN /\ cons' = [cons EXCEPT ![c].pc = "exited"]
            /\ UNCHANGED <<pc, invoked>>
       ELSE /\ cons' = [cons EXCEPT ![c] = [pc |-> "gather", batch |-> Head(queue)]]
            /\ pc' = [u \in Urls |-> IF u \in Items(Head(queue)) THEN "start" ELSE pc[u]]
            /\ invoked' = [u \in Urls |-> IF u \in Items(Head(queue)) THEN invoked[u] + 1
                                                                     ELSE invoked[u]]
    /\ UNCHANGED <<extVars, cfgVars, urls, prodPc, prodBatch, dlAll, attempt, req, resp,
                   bytes_downloaded, pending, result, fsVars, envVars, limVars, cntVars,
                   requests, waits, lastFail, sawPermanent, only503, held>>

\* downloader.py:136-140  gather returns the results; result['status'] of a
\* result that is None raises TypeError
ConsumerDone(c) ==
    /\ Running /\ cons[c].pc = "gather"
    /\ \A u \in Items(cons[c].batch) : pc[u] = "done"
    /\ IF \E u \in Items(cons[c].batch) : result[u].status = "None"
       THEN cons' = [cons EXCEPT ![c].pc = "crashed"]
       ELSE cons' = [cons EXCEPT ![c] = [pc |-> "get", batch |-> NoBatch]]
    /\ UNCHANGED <<extVars, cfgVars, urls, queue, prodPc, prodBatch, dlAll, taskVars, fsVars,
                   envVars, limVars, cntVars, histVars>>

\* downloader.py:136  gather raises the exception of a task that raised
ConsumerRaise(c) ==
    /\ Running /\ cons[c].pc = "gather"
    /\ \E u \in Items(cons[c].batch) : pc[u] = "crashed"
    /\ cons' = [cons EXCEPT ![c].pc = "crashed"]
    /\ UNCHANGED <<extVars, cfgVars, urls, queue, prodPc, prodBatch, dlAll, taskVars, fsVars,
                   envVars, limVars, cntVars, histVars>>

\* downloader.py:153-157  gather(producer_task, *consumers) returns
DownloadAllReturn ==
    /\ Running /\ prodPc = "done"
    /\ \A c \in Consumers : cons[c].pc = "exited"
    /\ dlAll' = "returned"
    /\ UNCHANGED <<extVars, cfgVars, urls, queue, prodPc, prodBatch, cons, taskVars, fsVars,
                   envVars, limVars, cntVars, histVars>>

\* downloader.py:153  gather raises the exception of a consumer that raised;
\* the event loop then cancels what is left
DownloadAllRaise ==
    /\ Running
    /\ \E c \in Consumers : cons[c].pc = "crashed"
    /\ dlAll' = "raised"
    /\ UNCHANGED <<extVars, cfgVars, urls, queue, prodPc, prodBatch, cons, taskVars, fsVars,
                   envVars, limVars, cntVars, histVars>>

\* ------------------------------------------------------------ the system
Next ==
    \/ Producer
    \/ ProducerUnblock
    \/ \E c \in Consumers : ConsumerGet(c)
    \/ \E c \in Consumers : ConsumerDone(c)
    \/ \E c \in Consumers : ConsumerRaise(c)
    \/ DownloadAllReturn
    \/ DownloadAllRaise
    \/ \E u \in Urls : Start(u)
    \/ \E u \in Urls : AcquireSlot(u)
    \/ \E u \in Urls : RequestFails(u)
    \/ \E u \in Urls : Respond(u)
    \/ \E u \in Urls : ReadChunk(u)
    \/ \E u \in Urls : BandwidthGranted(u)
    \/ \E u \in Urls : StreamEnds(u)
    \/ \E u \in Urls : StreamFails(u)
    \/ \E u \in Urls : Wake(u)
    \/ \E u \in Urls : ChangeResource(u)

Spec == Init /\ [][Next]_vars

\* download_all over at most one URL: a single download_file task
SpecJob == InitJob /\ [][Next]_vars

\* ------------------------------------------- cancellation and local I/O
\* The states of a download_file task in which it has started and not ended
Active(u) == pc[u] \in {"start", "limiter", "connecting", "streaming", "bwwait", "sleep"}

\* downloader.py:142-153  the task running download_all is cancelled (task.cancel(),
\* or asyncio.run on an interrupt): gather cancels the producer and the consumers,
\* each consumer's gather cancels its download_file tasks, and CancelledError
\* leaves every coroutine at its await: no except clause of download_file
\* (line 114) catches it, so no task returns a result
Cancel ==
    /\ Running
    /\ dlAll' = "cancelled"
    /\ pc' = [u \in Urls |-> IF Active(u) THEN "cancelled" ELSE pc[u]]
    /\ prodPc' = IF prodPc = "done" THEN prodPc ELSE "cancelled"
    /\ cons' = [c \in Consumers |->
                  IF cons[c].pc \in {"get", "gather"}
                  THEN [cons[c] EXCEPT !.pc = "cancelled"] ELSE cons[c]]
    /\ UNCHANGED <<extVars, cfgVars, urls, queue, prodBatch, attempt, req, resp, bytes_downloaded,
                   pending, result, fsVars, envVars, limVars, cntVars, histVars>>

\* downloader.py:94-98  writing a chunk to the temp file raises OSError (disk
\* full, permission): not an aiohttp.ClientError, so it leaves download_file
WriteFails(u) ==
    /\ Running /\ pc[u] = "streaming" /\ resp[u].left > 0
    /\ Raise(u, "OSError")
    /\ UNCHANGED <<extVars, cfgVars, schedVars, attempt, req, resp, bytes_downloaded, pending,
                   result, fsVars, envVars, limVars, cntVars, invoked, requests, waits,
                   sawPermanent, only503, held>>

\* A batch of NumUrls jobs handled by one consumer on a clean output folder
InitFaults ==
    \E bs \in 1..MaxBatchSize, bw \in {0, MaxMaxBandwidth} :
        InitWith(NumUrls, 1, BatchRetryAttempts, bs, bw, -1, 0)

NextFaults ==
    \/ Next
    \/ Cancel
    \/ \E u \in Urls : WriteFails(u)

\* download_all under cancellation and local I/O errors
SpecFaults == InitFaults /\ [][NextFaults]_vars

\* ------------------------------------------------ DownloadManager._execute
\* The answers of the server to a probe request; 0: the request raised
\* (connection error, timeout) and there is no response
ProbeAnswers == {0, 200, 404, 503}

\* A probe that takes any response for a good one
ProbeOk_AnyResponse(st) == st # 0

\* manager.py:98,102  response.status_code == 200
ProbeOk(st) == st = 200

\* manager.py:114-115  self.size is set when content-length is present and not 0
ProbedSize(prev, length) == IF length # 0 THEN length ELSE prev

\* manager.py:122  header.get("accept-ranges") is truthy: the header is present
\* with any value that is not empty
RangesSignalled(ranges) == ranges # "absent"

\* manager.py:122-123  the mode _get_info returns
DecideMultithread(wanted, sz, ranges) ==
    IF sz = 0 \/ ~RangesSignalled(ranges) THEN FALSE ELSE wanted

\* utls.create_segment_table: n contiguous ranges [start, end) over sz bytes
CreateSegmentTable(n, sz) ==
    [k \in 1..n |-> [start |-> ((k - 1) * sz) \div n, end |-> (k * sz) \div n]]

\* A worker that takes segment k of the table but never gets to run
Multidown_Skipped(k) == [segment |-> 0, completed |-> FALSE]

\* manager.py:84-91  Multidown(segement_table, segment, ...): the worker of segment k
Multidown(k) == [segment |-> k, completed |-> FALSE]

\* manager.py:78-80  Simpledown(url, file_path, ...): the worker of the whole file
Simpledown == [segment |-> 0, completed |-> FALSE]

\* manager.py:149  sum(worker.completed for worker in self._workers)
RECURSIVE CompletedCount(_)
CompletedCount(ws) ==
    IF ws = <<>> THEN 0
    ELSE (IF Head(ws).completed THEN 1 ELSE 0) + CompletedCount(Tail(ws))

\* A loop that combines as soon as one worker is done
AllCompleted_Any(st, n) == st >= 1

\* manager.py:159  status == len(self._workers)
AllCompleted(st, n) == st = n

\* manager.py:127  _execute(url, file_path, segments, display, multithread, etag)
\* is called on a new DownloadManager
InitManager ==
    /\ InitDownloader(0, 1, 1, 1, 0, -1, 0) /\ BmIdle /\ PthIdle /\ AuxIdle
    /\ asked \in [multithread : BOOLEAN, segments : 1..MaxSegments]
    /\ server \in [head : ProbeAnswers, get : ProbeAnswers, length : 0..MaxSize,
                    ranges : {"absent", "bytes", "none"}]
    /\ mgrPc = "head"
    /\ multithread = FALSE /\ segments = 0 /\ segment_table = <<>> /\ mstatus = 0
    /\ size = 0 /\ completed = FALSE /\ interrupt = FALSE /\ workers = <<>>
    /\ combined = 0 /\ headRequests = 0 /\ getRequests = 0

\* manager.py:97-99  _get_header: requests.head
ProbeHead ==
    /\ mgrPc = "head"
    /\ headRequests' = headRequests + 1
    /\ mgrPc' = IF server.head = 0 THEN "raised"
                ELSE IF ProbeOk(server.head) THEN "info" ELSE "get"
    /\ UNCHANGED <<dlVars, bmVars, pthVars, auxVars, asked, multithread, segments, segment_table, mstatus, size,
                   completed, interrupt, workers, server, combined, getRequests>>

\* manager.py:101-108  _get_header: requests.get(stream=True), then
\* self._interrupt.set() and raise ConnectionError
ProbeGet ==
    /\ mgrPc = "get"
    /\ getRequests' = getRequests + 1
    /\ mgrPc' = IF ProbeOk(server.get) THEN "info" ELSE "raised"
    /\ interrupt' = (interrupt \/ server.get \notin {0, 200})
    /\ UNCHANGED <<dlVars, bmVars, pthVars, auxVars, asked, multithread, segments, segment_table, mstatus, size,
                   completed, workers, server, combined, headRequests>>

\* manager.py:110-125  _get_info
GetInfo ==
    /\ mgrPc = "info"
    /\ size' = ProbedSize(size, server.length)
    /\ multithread' = DecideMultithread(asked.multithread, size', server.ranges)
    /\ mgrPc' = "plan"
    /\ UNCHANGED <<dlVars, bmVars, pthVars, auxVars, asked, segments, segment_table, mstatus, completed, interrupt,
                   workers, server, combined, headRequests, getRequests>>

\* manager.py:132-141,82-91,77-80  the pool and its workers are created
StartWorkers ==
    /\ mgrPc = "plan"
    /\ IF multithread
       THEN /\ segment_table' = CreateSegmentTable(asked.segments, size)
            /\ segments' = Len(segment_table')
            /\ workers' = workers \o [k \in 1..segments' |-> Multidown(k)]
       ELSE /\ workers' = Append(workers, Simpledown)
            /\ segments' = asked.segments
            /\ UNCHANGED segment_table
    /\ mgrPc' = "sample"
    /\ UNCHANGED <<dlVars, bmVars, pthVars, auxVars, asked, multithread, mstatus, size, completed, interrupt,
                   server, combined, headRequests, getRequests>>

\* A worker thread that has not finished reports completion
\* (Multidown.worker / Simpledown.worker set self.completed)
WorkerCompletes(k) ==
    /\ k \in 1..Len(workers) /\ ~workers[k].completed
    /\ workers' = [workers EXCEPT ![k].completed = TRUE]
    /\ UNCHANGED <<dlVars, bmVars, pthVars, auxVars, asked, mgrPc, multithread, segments, segment_table, mstatus,
                   size, completed, interrupt, server, combined, headRequests, getRequests>>

\* manager.py:78,87  a worker thread that has not finished sets the interrupt
\* event it was handed
WorkerInterrupts(k) ==
    /\ k \in 1..Len(workers) /\ ~workers[k].completed /\ ~interrupt
    /\ interrupt' = TRUE
    /\ UNCHANGED <<dlVars, bmVars, pthVars, auxVars, asked, mgrPc, multithread, segments, segment_table, mstatus,
                   size, completed, workers, server, combined, headRequests, getRequests>>

\* manager.py:148-153  the head of a turn of the loop: status is summed up
SampleStatus ==
    /\ mgrPc = "sample"
    /\ mstatus' = CompletedCount(workers)
    /\ mgrPc' = "interrupt?"
    /\ UNCHANGED <<dlVars, bmVars, pthVars, auxVars, asked, multithread, segments, segment_table, size, completed,
                   interrupt, workers, server, combined, headRequests, getRequests>>

\* manager.py:155-157  if self._interrupt.is_set(): return None
CheckInterrupt ==
    /\ mgrPc = "interrupt?"
    /\ mgrPc' = IF interrupt THEN "interrupted" ELSE "status?"
    /\ UNCHANGED <<dlVars, bmVars, pthVars, auxVars, asked, multithread, segments, segment_table, mstatus, size,
                   completed, interrupt, workers, server, combined, headRequests,
                   getRequests>>

\* manager.py:159-160,166  if status == len(self._workers): ... else sleep
CheckStatus ==
    /\ mgrPc = "status?"
    /\ mgrPc' = IF AllCompleted(mstatus, Len(workers))
                THEN (IF multithread THEN "combine" ELSE "complete")
                ELSE "sample"
    /\ UNCHANGED <<dlVars, bmVars, pthVars, auxVars, asked, multithread, segments, segment_table, mstatus, size,
                   completed, interrupt, workers, server, combined, headRequests,
                   getRequests>>

\* manager.py:161  combine_files(file_path, segments)
Combine ==
    /\ mgrPc = "combine"
    /\ combined' = combined + 1
    /\ mgrPc' = "complete"
    /\ UNCHANGED <<dlVars, bmVars, pthVars, auxVars, asked, multithread, segments, segment_table, mstatus, size,
                   completed, interrupt, workers, server, headRequests, getRequests>>

\* manager.py:162-164  self.completed = True; return FileValidator(file_path)
Complete ==
    /\ mgrPc = "complete"
    /\ completed' = TRUE
    /\ mgrPc' = "returned"
    /\ UNCHANGED <<dlVars, bmVars, pthVars, auxVars, asked, multithread, segments, segment_table, mstatus, size,
                   interrupt, workers, server, combined, headRequests, getRequests>>

NextManager ==
    \/ ProbeHead
    \/ ProbeGet
    \/ GetInfo
    \/ StartWorkers
    \/ \E k \in 1..MaxSegments : WorkerCompletes(k)
    \/ \E k \in 1..MaxSegments : WorkerInterrupts(k)
    \/ SampleStatus
    \/ CheckInterrupt
    \/ CheckStatus
    \/ Combine
    \/ Complete

\* One call of DownloadManager._execute with its worker threads
SpecManager == InitManager /\ [][NextManager]_vars

\* ------------------------------------------------------------ run_benchmark
\* utils.py:36-38  the hyperlink a task handles after pos others: dossier by
\* dossier, each dossier's hyperlinks in the order they were inserted
LinkAt(pos) ==
    LET d == dossiers[(pos \div DossierSize) + 1].hyperlinks
    IN  CHOOSE h \in d : Cardinality({g \in d : g < h}) = pos % DossierSize

\* benchmark.py:10-14  run_benchmark(db_file, num_items, folder) on an empty catalog
InitBenchmark ==
    /\ InitDownloader(0, 1, 1, 1, 0, -1, 0) /\ MgrIdle /\ PthIdle /\ AuxIdle
    /\ num_items \in 0..MaxItems
    /\ bmPc = "populate" /\ results = NoResults
    /\ inserted = 0 /\ hyperlinks = {} /\ dossiers = <<>> /\ downloaded = {}
    /\ taskPos = <<>>

\* utils.py:13-22  one turn of populate_database's loop: hyperlink i is added,
\* and after every 10th a dossier holding the last 10
PopulateItem ==
    /\ bmPc = "populate" /\ inserted < num_items
    /\ LET i == inserted
           buf == (IF i % DossierSize = 0 THEN {} ELSE hyperlinks) \cup {i}
       IN  /\ hyperlinks' = buf
           /\ dossiers' = IF i % DossierSize = DossierSize - 1
                           THEN Append(dossiers, [hyperlinks |-> buf,
                                                  attachment_files_downloaded |-> FALSE])
                           ELSE dossiers
           /\ inserted' = i + 1
    /\ UNCHANGED <<dlVars, mgrVars, pthVars, auxVars, num_items, bmPc, results, downloaded, taskPos>>

\* utils.py:23,56-61  the loop ends, the session is committed, and
\* process_downloads creates one download_and_update task per dossier that is
\* not marked downloaded
ProcessDownloads ==
    /\ bmPc = "populate" /\ inserted = num_items
    /\ taskPos' = [t \in {d \in 1..Len(dossiers) :
                              ~dossiers[d].attachment_files_downloaded} |-> 0]
    /\ bmPc' = "downloading"
    /\ UNCHANGED <<dlVars, mgrVars, pthVars, auxVars, num_items, results, inserted, hyperlinks,
                   dossiers, downloaded>>

\* utils.py:33-53  a download_and_update task between two awaits: it walks ALL
\* dossiers (its dossier argument is shadowed), downloads the next hyperlink and
\* marks it downloaded; after a dossier's last hyperlink it marks the dossier
DownloadAndUpdate(t) ==
    /\ bmPc = "downloading"
    /\ t \in 1..Len(taskPos) /\ taskPos[t] < Len(dossiers) * DossierSize
    /\ downloaded' = downloaded \cup {LinkAt(taskPos[t])}
    /\ dossiers' = IF taskPos[t] % DossierSize = DossierSize - 1
                    THEN [dossiers EXCEPT ![(taskPos[t] \div DossierSize) + 1]
                                              .attachment_files_downloaded = TRUE]
                    ELSE dossiers
    /\ taskPos' = [taskPos EXCEPT ![t] = @ + 1]
    /\ UNCHANGED <<dlVars, mgrVars, pthVars, auxVars, num_items, bmPc, results, inserted, hyperlinks>>

\* benchmark.py:18-56  every task has ended: the counts are taken and returned;
\* total_time / num_items raises ZeroDivisionError for num_items = 0
ReturnResults ==
    /\ bmPc = "downloading"
    /\ \A t \in 1..Len(taskPos) : taskPos[t] = Len(dossiers) * DossierSize
    /\ IF num_items = 0
       THEN bmPc' = "raised" /\ UNCHANGED results
       ELSE /\ results' = [total_items |-> num_items,
                            downloaded_url_count |-> Cardinality(downloaded)]
            /\ bmPc' = "returned"
    /\ UNCHANGED <<dlVars, mgrVars, pthVars, auxVars, num_items, inserted, hyperlinks, dossiers,
                   downloaded, taskPos>>

NextBenchmark ==
    \/ PopulateItem
    \/ ProcessDownloads
    \/ \E t \in 1..(MaxItems \div DossierSize) : DownloadAndUpdate(t)
    \/ ReturnResults

\* One call of run_benchmark
SpecBenchmark == InitBenchmark /\ [][NextBenchmark]_vars

\* ------------------------------------------------------ destination paths
\* A URL is its host, the directories of its path and its last path segment
\* (empty when the path ends with a slash), as urlparse and os.path.basename
\* split it
PathSegments == {"d", ".."}
DirLists == UNION {[1..n -> PathSegments] : n \in 0..MaxDirs}
UrlSet == [netloc : {"a.com", "b.com"}, dirs : DirLists,
           name : {"f.pdf", "a%20b.pdf", ""}]

\* storage.py:26, downloader.py:52  hashlib.md5(url.encode()).hexdigest(): a
\* digest standing for the whole text of the URL (collisions are not modelled)
UrlHash(url) == <<url.netloc, url.dirs, url.name>>

\* One component of a file system path: a plain name, or a name behind a hash
Dir(name) == [hash |-> <<>>, name |-> name]
Hashed(h, name) == [hash |-> h, name |-> name]

\* storage.py:15-33  generate_file_path(url, base_path):
\* base_path / netloc / the path's parent / <hash>_<basename>
generate_file_path(url, base_path) ==
    <<Dir(base_path), Dir(url.netloc)>>
        \o [i \in 1..Len(url.dirs) |-> Dir(url.dirs[i])]
        \o <<Hashed(UrlHash(url), url.name)>>

\* downloader.py:51  urllib.parse.unquote on the basename
unquote(name) == IF name = "a%20b.pdf" THEN "a b.pdf" ELSE name

\* downloader.py:49-53  generate_filename(url)
generate_filename(url) ==
    Hashed(UrlHash(url), IF unquote(url.name) = "" THEN "unnamed_file" ELSE unquote(url.name))

\* downloader.py:58-60  filepath and temp_filepath of download_file
FilePaths(url, output_folder) ==
    LET filepath == <<Dir(output_folder), generate_filename(url)>>
    IN  [filepath |-> filepath, temp_filepath |-> [path |-> filepath, suffix |-> ".temp"]]

\* storage.py:15, downloader.py:55  two URLs whose paths are to be computed
InitPaths ==
    /\ InitDownloader(0, 1, 1, 1, 0, -1, 0) /\ MgrIdle /\ BmIdle /\ AuxIdle
    /\ links \in [1..2 -> UrlSet]
    /\ pthPc = "storage" /\ storagePath = <<>> /\ filePath = <<>>

\* utils.py:40  hyperlink.path = generate_file_path(hyperlink.url, folder)
GeneratePaths ==
    /\ pthPc = "storage"
    /\ storagePath' = [i \in 1..2 |-> generate_file_path(links[i], "downloads")]
    /\ pthPc' = "downloader"
    /\ UNCHANGED <<dlVars, mgrVars, bmVars, auxVars, links, filePath>>

\* downloader.py:58-60  download_file computes its file names
NameFiles ==
    /\ pthPc = "downloader"
    /\ filePath' = [i \in 1..2 |-> FilePaths(links[i], "downloaded_files")]
    /\ pthPc' = "done"
    /\ UNCHANGED <<dlVars, mgrVars, bmVars, auxVars, links, storagePath>>

NextPaths == GeneratePaths \/ NameFiles

\* The destination paths of two URLs
SpecPaths == InitPaths /\ [][NextPaths]_vars

\* ------------------------------------------ download3.download_files_for_items
Links == 1..NumLinks

\* download3.py:17-18  the file of hyperlink t of dossier item_id:
\* folder_path/<item_id>_<basename of the URL's path>
Filepath(item_id, t) == <<item_id, d3Names[t]>>

\* download3.py:47  every hyperlink of the dossier is downloaded under dossier.id
Filepath3(t) == Filepath(1, t)

\* A semaphore whose release gives no permit back
Release_Lost(value) == value

\* asyncio.Semaphore.release, on leaving "async with semaphore" (download3.py:22)
Release(value) == value + 1

\* download3.py:30  f.write(chunk) through a handle at offset off: the byte lands
\* at that offset, past a hole of zeros if the file is shorter
WriteAt(data, off, b) ==
    IF off < Len(data) THEN [data EXCEPT ![off + 1] = b]
    ELSE data \o [i \in 1..(off - Len(data)) |-> 0] \o <<b>>

\* download3.py:64-75  download_files_for_items for one dossier of NumLinks
\* hyperlinks with pairwise distinct URLs, whose basenames may coincide
InitDownload3 ==
    /\ InitDownloader(0, 1, 1, 1, 0, -1, 0) /\ MgrIdle /\ BmIdle /\ PthIdle
    /\ CoreIdle /\ SpdIdle /\ CatIdle
    /\ d3Max \in 1..MaxMaxConcurrent
    /\ d3Names \in [Links -> {"f.pdf", "g.pdf"}]
    /\ semaphore = d3Max
    /\ holds = [t \in Links |-> FALSE]
    /\ d3Main = "gather"
    /\ d3Pc = [t \in Links |-> "attempt"]
    /\ d3Attempt = [t \in Links |-> 0]
    /\ d3Left = [t \in Links |-> 0]
    /\ d3Result = [t \in Links |-> "pending"]
    /\ d3Files = <<>>
    /\ d3Waits = [t \in Links |-> <<>>]

D3Others == <<dlVars, mgrVars, bmVars, pthVars, coreVars, spdVars, catVars, d3Max, d3Names, d3Main>>

\* download3.py:22-23  the semaphore is taken and the request is issued
TakePermit(t) ==
    /\ semaphore' = semaphore - 1
    /\ holds' = [holds EXCEPT ![t] = TRUE]
    /\ d3Pc' = [d3Pc EXCEPT ![t] = "get"]

\* download3.py:20,42  after an attempt that did not return: the next turn of
\* the loop, or return False when max_retries attempts were made
NextAttempt(t) ==
    IF d3Attempt[t] + 1 < max_retries
    THEN /\ d3Attempt' = [d3Attempt EXCEPT ![t] = @ + 1]
         /\ d3Pc' = [d3Pc EXCEPT ![t] = "attempt"]
         /\ UNCHANGED d3Result
    ELSE /\ d3Pc' = [d3Pc EXCEPT ![t] = "returned"]
         /\ d3Result' = [d3Result EXCEPT ![t] = "False"]
         /\ UNCHANGED d3Attempt

\* download3.py:35-41  the except branch: the semaphore has been left; a backoff
\* sleep unless this was the last attempt
Except3(t) ==
    /\ semaphore' = Release(semaphore)
    /\ holds' = [holds EXCEPT ![t] = FALSE]
    /\ IF d3Attempt[t] < max_retries - 1
       THEN /\ d3Waits' = [d3Waits EXCEPT ![t] = Append(@, Pow(2, d3Attempt[t]))]
            /\ d3Pc' = [d3Pc EXCEPT ![t] = "sleep"]
            /\ UNCHANGED <<d3Attempt, d3Result>>
       ELSE /\ NextAttempt(t)
            /\ UNCHANGED d3Waits

\* download3.py:20-23  an attempt begins: "async with semaphore" passes when a
\* permit is free and waits otherwise
Attempt3(t) ==
    /\ d3Main = "gather" /\ d3Pc[t] = "attempt"
    /\ IF semaphore > 0
       THEN TakePermit(t)
       ELSE /\ d3Pc' = [d3Pc EXCEPT ![t] = "acquire"]
            /\ UNCHANGED <<semaphore, holds>>
    /\ UNCHANGED <<D3Others, d3Attempt, d3Left, d3Result, d3Files, d3Waits>>

\* download3.py:22  a task waiting in semaphore.acquire gets a permit
Acquired3(t) ==
    /\ d3Main = "gather" /\ d3Pc[t] = "acquire" /\ semaphore > 0
    /\ TakePermit(t)
    /\ UNCHANGED <<D3Others, d3Attempt, d3Left, d3Result, d3Files, d3Waits>>

\* download3.py:23-25,33-34  the response arrives: 200 opens the file with 'wb';
\* any other status is printed, the blocks are left and the loop goes on
Respond3(t) ==
    /\ d3Main = "gather" /\ d3Pc[t] = "get"
    /\ \E status \in {200, 404, 503} :
        IF status = 200
        THEN /\ d3Files' = [p \in DOMAIN d3Files \cup {Filepath3(t)} |->
                               IF p = Filepath3(t) THEN File(<<>>) ELSE d3Files[p]]
             /\ d3Left' = [d3Left EXCEPT ![t] = FileSize]
             /\ d3Pc' = [d3Pc EXCEPT ![t] = "reading"]
             /\ UNCHANGED <<semaphore, holds, d3Attempt, d3Result>>
        ELSE /\ semaphore' = Release(semaphore)
             /\ holds' = [holds EXCEPT ![t] = FALSE]
             /\ NextAttempt(t)
             /\ UNCHANGED <<d3Left, d3Files>>
    /\ UNCHANGED <<D3Others, d3Waits>>

\* download3.py:23,35  session.get raises (connection error, timeout)
RequestFails3(t) ==
    /\ d3Main = "gather" /\ d3Pc[t] = "get"
    /\ Except3(t)
    /\ UNCHANGED <<D3Others, d3Left, d3Files>>

\* download3.py:26-30  a chunk is read and written at the handle's offset
ReadChunk3(t) ==
    /\ d3Main = "gather" /\ d3Pc[t] = "reading" /\ d3Left[t] > 0
    /\ d3Files' = [d3Files EXCEPT ![Filepath3(t)] =
                     File(WriteAt(@.data, FileSize - d3Left[t], t))]
    /\ d3Left' = [d3Left EXCEPT ![t] = @ - 1]
    /\ UNCHANGED <<D3Others, semaphore, holds, d3Pc, d3Attempt, d3Result, d3Waits>>

\* download3.py:27-32  read returns b"": the blocks are left, True is returned
BodyEnds3(t) ==
    /\ d3Main = "gather" /\ d3Pc[t] = "reading" /\ d3Left[t] = 0
    /\ semaphore' = Release(semaphore)
    /\ holds' = [holds EXCEPT ![t] = FALSE]
    /\ d3Pc' = [d3Pc EXCEPT ![t] = "returned"]
    /\ d3Result' = [d3Result EXCEPT ![t] = "True"]
    /\ UNCHANGED <<D3Others, d3Attempt, d3Left, d3Files, d3Waits>>

\* download3.py:27,35  reading the body raises (payload error, disconnect,
\* timeout): the file stays as written so far
StreamFails3(t) ==
    /\ d3Main = "gather" /\ d3Pc[t] = "reading"
    /\ Except3(t)
    /\ UNCHANGED <<D3Others, d3Left, d3Files>>

\* download3.py:39,20  the backoff sleep ends
Wake3(t) ==
    /\ d3Main = "gather" /\ d3Pc[t] = "sleep"
    /\ NextAttempt(t)
    /\ UNCHANGED <<D3Others, semaphore, holds, d3Left, d3Files, d3Waits>>

\* download3.py:50,75  gather returns once every download_file task has returned
Gathered3 ==
    /\ d3Main = "gather"
    /\ \A t \in Links : d3Pc[t] = "returned"
    /\ d3Main' = "returned"
    /\ UNCHANGED <<dlVars, mgrVars, bmVars, pthVars, coreVars, spdVars, catVars, d3Max, d3Names,
                   semaphore, holds, d3Pc, d3Attempt, d3Left, d3Result, d3Files, d3Waits>>

NextDownload3 ==
    \/ \E t \in Links : Attempt3(t)
    \/ \E t \in Links : Acquired3(t)
    \/ \E t \in Links : Respond3(t)
    \/ \E t \in Links : RequestFails3(t)
    \/ \E t \in Links : ReadChunk3(t)
    \/ \E t \in Links : BodyEnds3(t)
    \/ \E t \in Links : StreamFails3(t)
    \/ \E t \in Links : Wake3(t)
    \/ Gathered3

\* download3.download_files_for_items over one dossier
SpecDownload3 == InitDownload3 /\ [][NextDownload3]_vars

\* --------------------------------------------------- core.AsyncFileDownloader
\* core.py:16-21,65-69  a core.AsyncFileDownloader on an empty output folder,
\* download_all having created one download_file task per URL
InitCore ==
    /\ InitDownloader(0, 1, 1, 1, 0, -1, 0) /\ MgrIdle /\ BmIdle /\ PthIdle
    /\ D3Idle /\ SpdIdle /\ CatIdle
    /\ coreMax \in 1..MaxMaxConcurrent
    /\ coreRun = 1
    /\ coreSemaphore = coreMax
    /\ coreMain = "gather"
    /\ corePc = [u \in Urls |-> "start"]
    /\ coreLeft = [u \in Urls |-> 0]
    /\ coreResult = [u \in Urls |-> "pending"]
    /\ coreFiles = [u \in Urls |-> NoFile]
    /\ coreSkipped = [u \in Urls |-> FALSE]

CoreOthers == <<dlVars, mgrVars, bmVars, pthVars, d3Vars, spdVars, catVars, coreMax, coreRun, coreMain>>

\* core.py:47,59-61  a return of download_file from inside "async with
\* self.semaphore": the permit goes back
CoreReturn(u, status) ==
    /\ coreSemaphore' = coreSemaphore + 1
    /\ coreResult' = [coreResult EXCEPT ![u] = status]
    /\ corePc' = [corePc EXCEPT ![u] = "returned"]

\* core.py:39-44,62-63  the call: success at once when the file exists,
\* otherwise the semaphore is taken or waited for
CoreStart(u) ==
    /\ coreMain = "gather" /\ corePc[u] = "start"
    /\ IF coreFiles[u].exists
       THEN /\ coreResult' = [coreResult EXCEPT ![u] = "success"]
            /\ coreSkipped' = [coreSkipped EXCEPT ![u] = TRUE]
            /\ corePc' = [corePc EXCEPT ![u] = "returned"]
            /\ UNCHANGED coreSemaphore
       ELSE /\ IF coreSemaphore > 0
               THEN /\ coreSemaphore' = coreSemaphore - 1
                    /\ corePc' = [corePc EXCEPT ![u] = "get"]
               ELSE /\ corePc' = [corePc EXCEPT ![u] = "acquire"]
                    /\ UNCHANGED coreSemaphore
            /\ UNCHANGED <<coreResult, coreSkipped>>
    /\ UNCHANGED <<CoreOthers, coreLeft, coreFiles>>

\* core.py:44-45  a task waiting for the semaphore gets a permit
CoreAcquired(u) ==
    /\ coreMain = "gather" /\ corePc[u] = "acquire" /\ coreSemaphore > 0
    /\ coreSemaphore' = coreSemaphore - 1
    /\ corePc' = [corePc EXCEPT ![u] = "get"]
    /\ UNCHANGED <<CoreOthers, coreLeft, coreResult, coreFiles, coreSkipped>>

\* core.py:45-51  the response arrives: a status other than 200 returns an
\* error; 200 opens the destination file itself with 'wb'
CoreRespond(u) ==
    /\ coreMain = "gather" /\ corePc[u] = "get"
    /\ \E status \in {200, 404, 503} :
        IF status # 200
        THEN /\ CoreReturn(u, "error")
             /\ UNCHANGED <<coreLeft, coreFiles>>
        ELSE /\ coreFiles' = [coreFiles EXCEPT ![u] = File(<<>>)]
             /\ coreLeft' = [coreLeft EXCEPT ![u] = FileSize]
             /\ corePc' = [corePc EXCEPT ![u] = "reading"]
             /\ UNCHANGED <<coreSemaphore, coreResult>>
    /\ UNCHANGED <<CoreOthers, coreSkipped>>

\* core.py:45,59-61  session.get raises: an error is returned
CoreRequestFails(u) ==
    /\ coreMain = "gather" /\ corePc[u] = "get"
    /\ CoreReturn(u, "error")
    /\ UNCHANGED <<CoreOthers, coreLeft, coreFiles, coreSkipped>>

\* core.py:53-55  a chunk is read and written to the destination file
CoreReadChunk(u) ==
    /\ coreMain = "gather" /\ corePc[u] = "reading" /\ coreLeft[u] > 0
    /\ \E n \in 1..Min(ChunkSize, coreLeft[u]) :
          /\ coreFiles' = [coreFiles EXCEPT ![u] = File(@.data \o Bytes(1, n))]
          /\ coreLeft' = [coreLeft EXCEPT ![u] = @ - n]
    /\ UNCHANGED <<CoreOthers, coreSemaphore, corePc, coreResult, coreSkipped>>

\* core.py:53,58  the body ends: success is returned
CoreBodyEnds(u) ==
    /\ coreMain = "gather" /\ corePc[u] = "reading" /\ coreLeft[u] = 0
    /\ CoreReturn(u, "success")
    /\ UNCHANGED <<CoreOthers, coreLeft, coreFiles, coreSkipped>>

\* core.py:53,59-61  reading the body raises: an error is returned, and the
\* destination file stays as written so far
CoreStreamFails(u) ==
    /\ coreMain = "gather" /\ corePc[u] = "reading"
    /\ CoreReturn(u, "error")
    /\ UNCHANGED <<CoreOthers, coreLeft, coreFiles, coreSkipped>>

\* core.py:69  gather returns the results
CoreGathered ==
    /\ coreMain = "gather"
    /\ \A u \in Urls : corePc[u] = "returned"
    /\ coreMain' = "returned"
    /\ UNCHANGED <<dlVars, mgrVars, bmVars, pthVars, d3Vars, spdVars, catVars, coreMax, coreRun,
                   coreSemaphore, corePc, coreLeft, coreResult, coreFiles, coreSkipped>>

\* core.py:71-73,16-21,65-69  a later run: a new AsyncFileDownloader for the same
\* URLs and the same output folder, and its download_all
CoreNextRun ==
    /\ coreMain = "returned" /\ coreRun < MaxRuns
    /\ coreRun' = coreRun + 1
    /\ coreSemaphore' = coreMax
    /\ coreMain' = "gather"
    /\ corePc' = [u \in Urls |-> "start"]
    /\ coreLeft' = [u \in Urls |-> 0]
    /\ coreResult' = [u \in Urls |-> "pending"]
    /\ coreSkipped' = [u \in Urls |-> FALSE]
    /\ UNCHANGED <<dlVars, mgrVars, bmVars, pthVars, d3Vars, spdVars, catVars, coreMax, coreFiles>>

NextCore ==
    \/ \E u \in Urls : CoreStart(u)
    \/ \E u \in Urls : CoreAcquired(u)
    \/ \E u \in Urls : CoreRespond(u)
    \/ \E u \in Urls : CoreRequestFails(u)
    \/ \E u \in Urls : CoreReadChunk(u)
    \/ \E u \in Urls : CoreBodyEnds(u)
    \/ \E u \in Urls : CoreStreamFails(u)
    \/ CoreGathered
    \/ CoreNextRun

\* Runs of core.AsyncFileDownloader.download_all on one output folder
SpecCore == InitCore /\ [][NextCore]_vars

\* ------------------------------------------- DownloadManager._calc_values
\* Samples are counted in the unit to_mb converts to, and a speed is the
\* fraction num/den of that unit per sample interval: to_mb and the division by
\* interval (manager.py:59,63,66) scale every speed alike.
RECURSIVE SumSeq(_)
SumSeq(l) == IF l = <<>> THEN 0 ELSE Head(l) + SumSeq(Tail(l))

\* manager.py:58  recent_queue.append(...) on a deque with maxlen=12
AppendSample(q, v) == Tail(q) \o <<v>>

\* A list that keeps the zero samples
NonZeroList_Unfiltered(q) == q

\* manager.py:59  [to_mb(value) for value in recent_queue if value]
NonZeroList(q) == SelectSeq(q, LAMBDA v : v # 0)

\* manager.py:65  [b - a for a, b in zip(non_zero_list, non_zero_list[1:])]
Diff(l) == [i \in 1..(Len(l) - 1) |-> l[i + 1] - l[i]]

\* manager.py:60-66  the speed _calc_values sets
CalcSpeed(q) ==
    LET non_zero_list == NonZeroList(q)
    IN  IF Len(non_zero_list) < 1 THEN NoSpeed
        ELSE IF Len(non_zero_list) = 1 THEN [num |-> non_zero_list[1], den |-> 1]
        ELSE [num |-> SumSeq(Diff(non_zero_list)), den |-> Len(Diff(non_zero_list))]

\* manager.py:143-145  _execute is about to enter its loop: the history is 12
\* zeros and nothing has been downloaded
InitSpeed ==
    /\ InitDownloader(0, 1, 1, 1, 0, -1, 0) /\ MgrIdle /\ BmIdle /\ PthIdle
    /\ D3Idle /\ CoreIdle /\ CatIdle
    /\ recent_queue = [i \in 1..HistoryLen |-> 0]
    /\ downloadedSum = 0
    /\ speed = NoSpeed

\* The worker threads download: sum(worker.downloaded) grows
WorkersDownload ==
    /\ downloadedSum < MaxDownloaded
    /\ downloadedSum' = downloadedSum + 1
    /\ UNCHANGED <<dlVars, mgrVars, bmVars, pthVars, d3Vars, coreVars, catVars, recent_queue, speed>>

\* manager.py:150,54-66  a tick of the loop: _calc_values(recent_queue, interval)
CalcValues ==
    /\ recent_queue' = AppendSample(recent_queue, downloadedSum)
    /\ speed' = CalcSpeed(recent_queue')
    /\ UNCHANGED <<dlVars, mgrVars, bmVars, pthVars, d3Vars, coreVars, catVars, downloadedSum>>

NextSpeed == WorkersDownload \/ CalcValues

\* The ticks of one DownloadManager job
SpecSpeed == InitSpeed /\ [][NextSpeed]_vars

\* ------------------------------------------------ download3.update_database
\* download3.py:64  the positions of the list dossiers
Positions == 1..NumDossiers

\* models.py:25  the rows of table dossiers, attachment_files_downloaded False
Rows == 1..NumDossiers

\* models.py:23  the id of a Dossier that was never added to the catalog
NoneId == 0

\* download3.py:20-41  the attempts of one download_file call: attempt first is
\* answered 200 and its body is read to the end, the attempts before it end in
\* another status or a caught exception, those after it are not made; no
\* attempt succeeds when first = max_retries
Attempts(first) ==
    [a \in 0..(max_retries - 1) |->
        IF a < first THEN "failed" ELSE IF a = first THEN "ok" ELSE "not made"]

Outcomes == {Attempts(first) : first \in 0..max_retries}

\* download3.py:20-42  download_file's return value: True from the first attempt
\* that is answered 200 and read to its end, False after max_retries attempts
DownloadFile(outcomes) ==
    IF \E a \in 0..(max_retries - 1) : outcomes[a] = "ok" THEN "True" ELSE "False"

\* A test that one success is enough
all_Any(l) == \E i \in DOMAIN l : l[i] = "True"

\* download3.py:52  all(download_results)
all(l) == \A i \in DOMAIN l : l[i] = "True"

\* download3.py:86  where(Dossier.id == dossier.id); an id of None matches no row
Where(row, id) == row = id

\* download3.py:64-75,109-110  download_files_for_items(dossiers, ...) on a
\* catalog of unmarked dossiers: the dossier at position p is row p of the
\* catalog or a Dossier that was never added (id None), and has no hyperlink
\* or NumLinks of them; every process_item has created its download_file tasks
InitCatalog ==
    /\ InitDownloader(0, 1, 1, 1, 0, -1, 0) /\ MgrIdle /\ BmIdle /\ PthIdle
    /\ D3Idle /\ CoreIdle /\ SpdIdle
    /\ catIds \in {ids \in [Positions -> {NoneId} \cup Rows] :
                      \A p \in Positions : ids[p] \in {NoneId, p}}
    /\ catLinks \in [Positions -> {0, NumLinks}]
    /\ catMain = "gather"
    /\ download_results = [p \in Positions |-> [h \in 1..catLinks[p] |-> "pending"]]
    /\ catResults = [p \in Positions |-> "pending"]
    /\ catPos = 0
    /\ db_session = [r \in Rows |-> FALSE]
    /\ catalog = [r \in Rows |-> FALSE]

CatOthers == <<dlVars, mgrVars, bmVars, pthVars, d3Vars, coreVars, spdVars, catIds, catLinks>>

\* download3.py:16-42  the download_file task of hyperlink h of the dossier at
\* position p returns
DownloadFileReturns(p, h) ==
    /\ catMain = "gather"
    /\ h \in DOMAIN download_results[p] /\ download_results[p][h] = "pending"
    /\ \E outcomes \in Outcomes :
        download_results' = [download_results EXCEPT ![p][h] = DownloadFile(outcomes)]
    /\ UNCHANGED <<CatOthers, catMain, catResults, catPos, db_session, catalog>>

\* download3.py:25,35,50,75  download_file raises what its except clause does
\* not catch (aiofiles.open fails with OSError): both gathers pass it on and
\* download_files_for_items raises before update_database
DownloadFileRaises(p, h) ==
    /\ catMain = "gather"
    /\ h \in DOMAIN download_results[p] /\ download_results[p][h] = "pending"
    /\ download_results' = [download_results EXCEPT ![p][h] = "raised"]
    /\ catMain' = "raised"
    /\ UNCHANGED <<CatOthers, catResults, catPos, db_session, catalog>>

\* download3.py:50-62  process_item's gather returns and it returns
\* all(download_results)
ProcessItem(p) ==
    /\ catMain = "gather" /\ catResults[p] = "pending"
    /\ \A h \in DOMAIN download_results[p] : download_results[p][h] # "pending"
    /\ catResults' = [catResults EXCEPT ![p] =
                        IF all(download_results[p]) THEN "True" ELSE "False"]
    /\ UNCHANGED <<CatOthers, catMain, download_results, catPos, db_session, catalog>>

\* download3.py:75-79  gather returns the process_item results in the order of
\* dossiers, and update_database is run
GatheredItems ==
    /\ catMain = "gather"
    /\ \A p \in Positions : catResults[p] # "pending"
    /\ catMain' = "update"
    /\ UNCHANGED <<CatOthers, download_results, catResults, catPos, db_session, catalog>>

\* download3.py:84-86  one turn of update_database's loop over
\* zip(dossiers, results)
UpdateDossier ==
    /\ catMain = "update" /\ catPos < NumDossiers
    /\ LET p == catPos + 1
       IN  db_session' = IF catResults[p] = "True"
                         THEN [r \in Rows |-> IF Where(r, catIds[p]) THEN TRUE
                                              ELSE db_session[r]]
                         ELSE db_session
    /\ catPos' = catPos + 1
    /\ UNCHANGED <<CatOthers, catMain, download_results, catResults, catalog>>

\* download3.py:87  db_session.commit()
Commit ==
    /\ catMain = "update" /\ catPos = NumDossiers
    /\ catalog' = db_session
    /\ catMain' = "returned"
    /\ UNCHANGED <<CatOthers, download_results, catResults, catPos, db_session>>

NextCatalog ==
    \/ \E p \in Positions, h \in 1..NumLinks : DownloadFileReturns(p, h)
    \/ \E p \in Positions, h \in 1..NumLinks : DownloadFileRaises(p, h)
    \/ \E p \in Positions : ProcessItem(p)
    \/ GatheredItems
    \/ UpdateDossier
    \/ Commit

\* The two programs that mark the catalog: one call of
\* download3.download_files_for_items, or one call of run_benchmark
SpecCatalog == (InitCatalog \/ InitBenchmark) /\ [][NextCatalog \/ NextBenchmark]_vars

\* ================================================================ claims

\* C1: the download_file tasks that have passed the rate limiter and have a
\* request open or a body streaming are never more than max_concurrent, the
\* bound being the rate limiter's.
C1_InFlightWithinMaxConcurrent == Cardinality(InFlight) <= max_concurrent

\* C2: every URL is handed to download_file at most once, and an invocation that
\* has ended has yielded one terminal result, success or error.
C2_OneTerminalResultPerUrl ==
    \A u \in Urls :
        /\ invoked[u] <= 1
        /\ Terminal(u) => result[u].status \in {"success", "error"}

\* C3: once the producer has enqueued everything, every job has its terminal
\* result and no consumer is still at work on a batch, every consumer has
\* detected end-of-input and exited (so that download_all's gather completes).
C3_ConsumersExitAtEndOfInput ==
    ( /\ Running
      /\ prodPc = "done"
      /\ queue = <<>>
      /\ \A u \in Urls : invoked[u] = 1 => (pc[u] = "done" /\ result[u].status # "None")
      /\ \A c \in Consumers : cons[c].pc \in {"get", "exited"} )
    => \A c \in Consumers : cons[c].pc = "exited"

\* A whole body of some version of the resource r
WholeBody(d, r) == \E v \in 1..Len(r) : d = Bytes(v, r[v])

\* C4: a file exists at the final path only if all bytes of the job were
\* written first: the published file is the whole body of the resource.
C4_FinalOnlyAfterAllBytes ==
    \A u \in Urls : final[u].exists => WholeBody(final[u].data, remote[u])

\* C5: after an attempt has failed with a permanent classification (HTTP 404)
\* download_file is over with an error: it neither waits nor tries again.
C5_PermanentFailureNotRetried ==
    \A u \in Urls :
        lastFail[u] = "HTTP404" => (pc[u] = "done" /\ result[u].status = "error")

StrictlyIncreasing(w) == \A i \in 1..(Len(w) - 1) : w[i] < w[i + 1]

\* C6: a job that made attempts, every one failing with a transient classification, has
\* been retried retry_attempts times, after strictly increasing backoff waits,
\* and has ended with a terminal failure.
C6_TransientRetriedRetryAttemptsTimes ==
    \A u \in Urls :
        (Terminal(u) /\ requests[u] >= 1 /\ result[u].status # "success"
                     /\ ~sawPermanent[u]
                     /\ lastFail[u] \notin {"ValueError", "FileNotFoundError"})
        => /\ result[u].status = "error"
           /\ Len(waits[u]) = retry_attempts
           /\ StrictlyIncreasing(waits[u])

\* C7: whenever download_file issues the request of an attempt while the temp
\* file exists with k bytes, the request asks for the range starting at k, so
\* bytes [0, k) are never requested again; on a first attempt and on every retry.
C7_ResumeFromTempLength ==
    [][\A u \in Urls :
          (requests'[u] = requests[u] + 1 /\ temp[u].exists)
          => (req'[u] = Len(temp[u].data) /\ pc'[u] = "connecting")]_vars

\* C7 witness: a retry has issued a request resuming at the positive length of
\* the temp file the failed attempt left.
C7_RetryResumed ==
    \E u \in Urls :
        /\ pc[u] = "connecting" /\ attempt[u] >= 1
        /\ temp[u].exists /\ Len(temp[u].data) >= 1
        /\ req[u] = Len(temp[u].data)

\* C8: bytes of a new version of the remote resource are never appended to temp
\* bytes of an older one: a temp or published file holds bytes of one version.
C8_NoBytesOfTwoVersions ==
    \A u \in Urls :
        /\ \A i, j \in DOMAIN temp[u].data : temp[u].data[i] = temp[u].data[j]
        /\ \A i, j \in DOMAIN final[u].data : final[u].data[i] = final[u].data[j]

\* C9: a call of download_file that finds the final file returns success with
\* zero bytes and changes nothing else: no limiter slot taken, no request
\* issued, no file created, changed or renamed.
C9_ExistingFileIsNoOp ==
    [][\A u \in Urls :
          (pc[u] = "start" /\ final[u].exists /\ pc'[u] # "start")
          => /\ pc'[u] = "done"
             /\ result'[u] = [status |-> "success", bytes |-> 0]
             /\ requests'[u] = requests[u]
             /\ UNCHANGED <<rate_level, bw_level, temp, final, req>>]_vars

\* C9 witness: a call has returned success with zero bytes for a URL whose final
\* file was there, having issued no request.
C9_ReturnedForExistingFile ==
    \E u \in Urls :
        /\ invoked[u] = 1 /\ pc[u] = "done" /\ requests[u] = 0
        /\ result[u] = [status |-> "success", bytes |-> 0]
        /\ final[u].exists /\ ~temp[u].exists
        /\ rate_level = 0

\* C10: the byte budget of the bandwidth limiter never goes negative (the level
\* of the bucket never exceeds its capacity) and no acquire(len(chunk)) fails.
C10_BandwidthBudgetNeverFails ==
    /\ bw_rate # 0 => bw_level <= bw_rate
    /\ \A u \in Urls : lastFail[u] # "ValueError"

\* The first half of C10 alone
BandwidthBudgetNonNegative == bw_rate # 0 => bw_level <= bw_rate

\* C11: the jobs taken off the pending URL list that have no terminal result yet
\* (waiting in a batch of the queue or of the blocked producer, or running as a
\* download_file task) are never more than max_concurrent
Outstanding ==
    {u \in Urls : /\ ~Terminal(u)
                  /\ \/ pc[u] # "idle"
                     \/ u \in Items(prodBatch)
                     \/ \E i \in 1..Len(queue) : u \in Items(queue[i])}

C11_WindowWithinMaxConcurrent == Cardinality(Outstanding) <= max_concurrent

\* C17: with retry_attempts = 3, a job whose first two attempts are answered 503
\* and whose third attempt is answered 200 (the body read to its end) ends in
\* success after exactly 2 retries (3 requests), the second wait longer than the
\* first, with the whole body published at the final path
Answered503Twice200(u) ==
    /\ retry_attempts = RETRY_ATTEMPTS
    /\ only503[u] /\ Len(waits[u]) = 2 /\ attempt[u] = 2
    /\ resp[u].status = 200 /\ resp[u].left = 0
    /\ Terminal(u)

C17_SucceedsAfterTwoRetries ==
    \A u \in Urls :
        Answered503Twice200(u) =>
            /\ pc[u] = "done"
            /\ result[u] = [status |-> "success", bytes |-> Size(remote[u])]
            /\ requests[u] = 3
            /\ waits[u][1] < waits[u][2]
            /\ final[u].exists /\ WholeBody(final[u].data, remote[u])
            /\ ~temp[u].exists

C17_SucceededOnThirdAttempt ==
    \E u \in Urls : /\ Answered503Twice200(u)
                     /\ result[u].status = "success"
                     /\ waits[u] = <<1, 2>>
                     /\ final[u].exists

\* C12: once cancellation has fired, every job that was in flight has a terminal
\* error result, no pending job has been started, and no unfinished job has a
\* file at its final path
C12_CancelledJobsReportError ==
    dlAll = "cancelled" =>
        \A u \in Urls :
            /\ (pc[u] = "cancelled" /\ requests[u] >= 1) =>
                    result[u].status = "error" /\ ~final[u].exists
            /\ pc[u] = "idle" => invoked[u] = 0 /\ ~final[u].exists

\* C16: a job that ended in a terminal error (transient retries exhausted,
\* permanent, local I/O) never makes download_all give up
EndedInError(u) ==
    \/ pc[u] = "done" /\ result[u].status = "error"
    \/ pc[u] = "crashed" /\ lastFail[u] = "OSError"

C16_ErrorDoesNotStopOthers == (\E u \in Urls : EndedInError(u)) => dlAll # "raised"

SegmentsPartition(t, sz) ==
    /\ Len(t) >= 1
    /\ t[1].start = 0 /\ t[Len(t)].end = sz
    /\ \A k \in 1..Len(t) : t[k].start <= t[k].end
    /\ \A k \in 1..(Len(t) - 1) : t[k].end = t[k + 1].start

C15_SegmentedOnlyWithSizeAndRanges ==
    workers # <<>> =>
        /\ multithread <=> (asked.multithread /\ server.length # 0 /\ server.ranges = "bytes")
        /\ ~multithread => Len(workers) = 1

\* C18: a probe that fails transiently (no response, 503) is retried before the
\* job fails
LastProbeAnswer == IF getRequests > 0 THEN server.get ELSE server.head

C18_TransientProbeFailureRetried ==
    (mgrPc = "raised" /\ LastProbeAnswer \in {0, 503}) =>
        (headRequests > 1 \/ getRequests > 1)

\* C19: when run_benchmark has returned, every hyperlink populate_database
\* inserted is marked downloaded, and the result reports total_items = num_items
\* and as many downloaded hyperlinks
C19_AllItemsDownloaded ==
    bmPc = "returned" =>
        /\ downloaded = 0..(num_items - 1)
        /\ results.total_items = num_items
        /\ results.downloaded_url_count = num_items

\* C20: the destination path of a URL lies under the output folder, its file
\* name is <hash(url)>_<basename(url)>, two different URLs never get the same
\* path, and the temp path is the destination path plus a fixed suffix
RECURSIVE Escapes(_, _)
Escapes(comps, depth) ==
    IF comps = <<>> THEN FALSE
    ELSE IF Head(comps) = Dir("..") THEN depth = 0 \/ Escapes(Tail(comps), depth - 1)
    ELSE Escapes(Tail(comps), depth + 1)

LiesUnder(path, folder) == path[1] = Dir(folder) /\ ~Escapes(Tail(path), 0)

NamedAfter(path, url) == path[Len(path)] = Hashed(UrlHash(url), url.name)

C20_DestinationUnderOutputFolder ==
    pthPc = "done" =>
        /\ \A i \in 1..2 :
              /\ LiesUnder(storagePath[i], "downloads")
              /\ NamedAfter(storagePath[i], links[i])
              /\ LiesUnder(filePath[i].filepath, "downloaded_files")
              /\ filePath[i].temp_filepath = [path |-> filePath[i].filepath, suffix |-> ".temp"]
        /\ links[1] # links[2] =>
              /\ storagePath[1] # storagePath[2]
              /\ filePath[1].filepath # filePath[2].filepath

\* C21: an attempt that receives status 416 finalizes the job at once: the temp
\* file is renamed to the final path and success with zero bytes is returned,
\* with no retry, no backoff wait and no further request
C21_RangeNotSatisfiableFinalizes ==
    [][\A u \in Urls :
          (pc[u] = "connecting" /\ pc'[u] # "connecting" /\ resp'[u].status = 416)
          => /\ temp[u].exists
             /\ final'[u] = temp[u] /\ ~temp'[u].exists
             /\ pc'[u] = "done"
             /\ result'[u] = [status |-> "success", bytes |-> 0]
             /\ waits'[u] = waits[u] /\ requests'[u] = requests[u]]_vars

\* C21 witness: a retry whose range started at the end of the resource was
\* answered 416 and the temp file of the failed attempt was published
C21_FinalizedOn416 ==
    \E u \in Urls :
        /\ resp[u].status = 416 /\ pc[u] = "done" /\ attempt[u] >= 1
        /\ result[u] = [status |-> "success", bytes |-> 0]
        /\ final[u].exists /\ ~temp[u].exists

\* The download_file task of u has just failed an attempt and has not begun the next
AfterFailedAttempt(u) ==
    /\ lastFail[u] \in {"ClientConnectionError", "HTTP404", "HTTP503", "TimeoutError"}
    /\ pc[u] = "sleep" \/ (pc[u] = "done" /\ result[u].status = "error")

\* The chunks the failed attempt wrote: none unless it failed mid-stream
WrittenInAttempt(u) ==
    IF lastFail[u] = "TimeoutError" THEN Bytes(resp[u].ver, bytes_downloaded[u]) ELSE <<>>

\* The failed attempt was a restart from offset 0: its body, a full one sent
\* with status 200, was opened
RestartedFromZero(u) == lastFail[u] = "TimeoutError" /\ resp[u].status = 200

\* The next attempt starts from the temp file the failed one left
NextAttemptStartsFromTemp(u) ==
    (pc[u] = "connecting" /\ attempt[u] >= 1) =>
        (held[u] = temp[u] /\ req[u] = RangeHeader(temp[u]))

\* C22 as stated: after a failed attempt the temp file holds what it held when
\* the attempt began plus the chunks the attempt wrote (never deleted, truncated
\* or renamed), the final path is unchanged, and the next attempt starts from it
C22_FailedAttemptKeepsTemp ==
    \A u \in Urls :
        /\ AfterFailedAttempt(u) =>
              /\ temp[u].exists = (held[u].exists \/ lastFail[u] = "TimeoutError")
              /\ temp[u].data = held[u].data \o WrittenInAttempt(u)
              /\ ~final[u].exists
        /\ NextAttemptStartsFromTemp(u)

\* C22 amended: as above, except that an attempt whose request was answered 200
\* rewrote the temp file from offset 0, so that after its failure the temp file
\* holds exactly the chunks that attempt wrote
C22_FailedAttemptKeepsTempUnlessRestarted ==
    \A u \in Urls :
        /\ AfterFailedAttempt(u) =>
              /\ temp[u].exists = (held[u].exists \/ lastFail[u] = "TimeoutError")
              /\ temp[u].data = (IF RestartedFromZero(u) THEN <<>> ELSE held[u].data)
                                    \o WrittenInAttempt(u)
              /\ ~final[u].exists
        /\ NextAttemptStartsFromTemp(u)

\* C22 witness: an attempt that resumed a temp file of at least one byte was
\* answered 206, wrote a chunk and failed; the task waits for its retry
C22_FailedAfterAppending ==
    \E u \in Urls :
        /\ pc[u] = "sleep" /\ lastFail[u] = "TimeoutError"
        /\ resp[u].status = 206 /\ bytes_downloaded[u] >= 1
        /\ Len(held[u].data) >= 1
        /\ Len(temp[u].data) = Len(held[u].data) + bytes_downloaded[u]

\* C24: when the body of a response is opened, the temp file is kept (and then
\* appended to) only if the status is 206; for a 200 it is emptied and written
\* from offset 0, also when the request carried a Range header. So the temp file
\* of a 200 body holds bytes of that body only, and that of a 206 body holds the
\* old temp file followed by the requested remainder.
C24_FullBodyRestartsFromZero ==
    /\ [](\A u \in Urls :
            pc[u] \in {"streaming", "bwwait"} =>
                IF resp[u].status = 206
                THEN /\ held[u].exists /\ req[u] = Len(held[u].data)
                     /\ temp[u].data = held[u].data \o Bytes(resp[u].ver, bytes_downloaded[u])
                ELSE /\ resp[u].status = 200
                     /\ temp[u].data = Bytes(resp[u].ver, bytes_downloaded[u]))
    /\ [][\A u \in Urls :
            (pc[u] = "connecting" /\ pc'[u] = "streaming") =>
                temp'[u] = IF resp'[u].status = 206 THEN temp[u] ELSE File(<<>>)]_vars

\* C24 witness: a request resuming a temp file of at least one byte was answered
\* 200, and the temp file holds the bytes of the new body written so far
C24_ResumeAnsweredWithFullBody ==
    \E u \in Urls :
        /\ pc[u] = "streaming" /\ resp[u].status = 200
        /\ req[u] >= 1 /\ Len(held[u].data) >= 1
        /\ bytes_downloaded[u] >= 1
        /\ temp[u].data = Bytes(resp[u].ver, bytes_downloaded[u])

\* The URLs that were submitted: those download_file was called for and those
\* still on the list or in a batch
Submitted ==
    {u \in Urls : \/ invoked[u] >= 1
                  \/ \E i \in 1..Len(urls) : urls[i] = u
                  \/ u \in Items(prodBatch)
                  \/ \E i \in 1..Len(queue) : u \in Items(queue[i])}

\* C25: when download_all has returned, successful_downloads + failed_downloads
\* is the number of URLs submitted
C25_CountersAddUpToUrls ==
    dlAll = "returned" =>
        successful_downloads + failed_downloads = Cardinality(Submitted)

\* C23: every retry is preceded by a backoff wait of 2^attempt seconds, attempt
\* being the number of the attempt that failed (0 for the first), whatever failed
\* it, and no wait follows the last failed attempt. In download3.download_file:
\* a task at or past attempt a has waited 1, 2, ..., 2^(a-1), and nothing more.
C23_EveryRetryAfterBackoff ==
    \A t \in Links :
        /\ Len(d3Waits[t]) = (IF d3Pc[t] = "sleep" THEN d3Attempt[t] + 1 ELSE d3Attempt[t])
        /\ \A i \in 1..Len(d3Waits[t]) : d3Waits[t][i] = Pow(2, i - 1)
        /\ Len(d3Waits[t]) <= max_retries - 1

\* The same for downloader.download_file
BackoffBeforeEveryRetry ==
    \A u \in Urls :
        /\ Len(waits[u]) = (IF pc[u] = "sleep" THEN attempt[u] + 1 ELSE attempt[u])
        /\ \A i \in 1..Len(waits[u]) : waits[u][i] = Pow(2, i - 1)
        /\ retry_attempts >= 1 => Len(waits[u]) <= retry_attempts - 1

\* C26: no two download_file tasks have the same file open for writing at the
\* same time
C26_OneWriterPerPath ==
    \A t1, t2 \in Links :
        (t1 # t2 /\ d3Pc[t1] = "reading" /\ d3Pc[t2] = "reading")
        => Filepath3(t1) # Filepath3(t2)

\* C29: a download3.download_file task holds a permit of the semaphore only
\* while its request is open or its body is being read (never during a backoff
\* sleep and never after it returned), the permits in use are never more than
\* max_concurrent, and when gather has returned every permit is free again
PermitsInUse == Cardinality({t \in Links : holds[t]})

C29_PermitHeldOnlyWhileTransferring ==
    /\ \A t \in Links : holds[t] <=> d3Pc[t] \in {"get", "reading"}
    /\ PermitsInUse <= d3Max
    /\ semaphore = d3Max - PermitsInUse
    /\ d3Main = "returned" => semaphore = d3Max

\* C29 witness: every task has returned, one of them after an exception, a
\* rejected status and a successful transfer, and every permit is free
C29_AllPermitsBack ==
    /\ d3Main = "returned" /\ semaphore = d3Max /\ d3Max < NumLinks
    /\ \E t \in Links : d3Result[t] = "True" /\ d3Attempt[t] = 2 /\ d3Waits[t] = <<1>>
    /\ \E t \in Links : d3Result[t] = "False"

\* C27: core.download_file reports success because the file exists only if the
\* file holds the whole body of the URL (a failed or rejected download having
\* left no file at the destination path)
C27_ExistingFileIsWholeBody ==
    \A u \in Urls :
        (coreResult[u] = "success" /\ coreSkipped[u]) =>
            coreFiles[u] = File(Bytes(1, FileSize))

\* A probe request was answered, with a status other than 200
Rejected(st) == st \notin {0, 200}

\* What C28 says in either form: the GET probe is issued only after the HEAD
\* probe was answered with a status other than 200; the job goes on past the
\* probe only if one of the two returned 200; and when _get_header has raised,
\* no worker and no segment table exist and completed is false
ProbeOrderAndFailure ==
    /\ headRequests <= 1 /\ getRequests <= 1
    /\ getRequests = 1 => (headRequests = 1 /\ Rejected(server.head))
    /\ mgrPc \notin {"head", "get", "raised"} =>
          \/ server.head = 200 /\ getRequests = 0
          \/ server.get = 200 /\ getRequests = 1
    /\ mgrPc = "raised" => (workers = <<>> /\ segment_table = <<>> /\ ~completed)

C30_SpeedIsMeanOfDeltas ==
    Len(recent_queue) = HistoryLen =>
        speed.num * (HistoryLen - 1)
            = (recent_queue[HistoryLen] - recent_queue[1]) * speed.den

\* The samples of the history that are not zero are its last NonZeroCount ones
NonZeroCount == Cardinality({i \in 1..HistoryLen : recent_queue[i] # 0})

\* C30 amended: the history never decreases, and the speed is the mean of the
\* successive differences between its non-zero samples (the last sample minus
\* the first non-zero one, over their number less one), divided by the sample
\* interval; with a single non-zero sample it is that sample divided by the
\* interval, and with none it is 0
C30_SpeedIsMeanOfNonZeroDeltas ==
    Len(recent_queue) = HistoryLen =>
        /\ \A i \in 1..(HistoryLen - 1) : recent_queue[i] <= recent_queue[i + 1]
        /\ speed.den >= 1
        /\ IF NonZeroCount = 0 THEN speed.num = 0
           ELSE IF NonZeroCount = 1 THEN speed.num = recent_queue[HistoryLen] * speed.den
           ELSE speed.num * (NonZeroCount - 1)
                    = (recent_queue[HistoryLen] - recent_queue[HistoryLen - NonZeroCount + 1])
                          * speed.den

\* C30 witness: a history that still holds initial zeros and whose non-zero
\* samples grew by 2 in 2 intervals: the speed is 1 per interval
C30_WarmUpSpeed ==
    /\ Len(recent_queue) = HistoryLen
    /\ recent_queue[HistoryLen - 3] = 0
    /\ recent_queue[HistoryLen - 2] = 1 /\ recent_queue[HistoryLen] = 3
    /\ speed = [num |-> 2, den |-> 2]


\* Every download_file task of the dossier at position p returned True
EveryDownloadSucceeded(p) ==
    \A h \in DOMAIN download_results[p] : download_results[p][h] = "True"

\* A download_file task of the dossier at position p returned False or raised
SomeDownloadFailed(p) ==
    \E h \in DOMAIN download_results[p] : download_results[p][h] \in {"False", "raised"}

\* C31: a dossier is marked attachment_files_downloaded (and a hyperlink marked
\* downloaded) only if every download belonging to it returned success; a
\* dossier with a failed download is left unmarked; marking one dossier never
\* changes the mark of another.  For update_database: a marked row is the row
\* of a dossier of the list whose downloads all returned True, nothing is
\* committed that the session did not mark, and a turn of the loop changes no
\* row but that of the dossier it handles.  For download_and_update: a marked
\* dossier has all its hyperlinks marked downloaded, and a step marks no
\* dossier but the one whose last hyperlink it has just handled.
C31_MarkedOnlyIfEveryDownloadSucceeded ==
    /\ [](/\ \A r \in DOMAIN db_session :
                db_session[r] => \E p \in Positions : catIds[p] = r /\ EveryDownloadSucceeded(p)
          /\ \A r \in DOMAIN catalog : catalog[r] => db_session[r]
          /\ \A p \in DOMAIN download_results :
                SomeDownloadFailed(p) =>
                    catIds[p] = NoneId \/ (~db_session[catIds[p]] /\ ~catalog[catIds[p]])
          /\ \A d \in DOMAIN dossiers :
                dossiers[d].attachment_files_downloaded =>
                    dossiers[d].hyperlinks \subseteq downloaded)
    /\ [][/\ \A r \in DOMAIN db_session :
                db_session'[r] # db_session[r] =>
                    catMain = "update" /\ r = catIds[catPos + 1]
          /\ \A d \in DOMAIN dossiers :
                dossiers'[d].attachment_files_downloaded
                        # dossiers[d].attachment_files_downloaded =>
                    /\ dossiers'[d].hyperlinks \subseteq downloaded'
                    /\ \A e \in DOMAIN dossiers \ {d} :
                          dossiers'[e].attachment_files_downloaded
                              = dossiers[e].attachment_files_downloaded]_vars

\* update_database has committed: one dossier is marked, and another dossier of
\* the catalog, one of whose downloads returned False, is left unmarked
C31_OneMarkedOneLeftUnmarked ==
    /\ catMain = "returned"
    /\ \E p, q \in Positions :
        /\ catIds[p] # NoneId /\ catalog[catIds[p]]
        /\ catIds[q] # NoneId /\ ~catalog[catIds[q]]
        /\ \E h \in DOMAIN download_results[q] : download_results[q][h] = "False"

====
